---- MODULE Spec2Model ----
(***************************************************************************)
(* Woof Moo (peeveen/woofmoo): the archive directory of src/index.mjs.     *)
(*                                                                         *)
(* The model follows src/index.mjs.  JavaScript strings are TLA+ strings   *)
(* (TLC evaluates Len, SubSeq and \o on them), objects are records whose   *)
(* DOMAIN is the set of properties they own, and the archive table, an     *)
(* object whose keys JavaScript enumerates in insertion order, is a        *)
(* sequence of [key, val] entries in that order.  Time is counted in days. *)
(***************************************************************************)
EXTENDS Integers, Sequences, FiniteSets, TLC

(***************************************************************************)
(* Strings                                                                 *)
(***************************************************************************)

Char(s, i) == SubSeq(s, i, i)

Min(S) == CHOOSE m \in S : \A n \in S : m <= n

Max(S) == CHOOSE m \in S : \A n \in S : m >= n

\* String.prototype.toLowerCase, on the letters the model's texts use.
UpperToLower ==
    [c \in {"A","B","C","D","E","F","G","H","I","J","K","L","M",
            "N","O","P","Q","R","S","T","U","V","W","X","Y","Z"} |->
        CASE c = "A" -> "a" [] c = "B" -> "b" [] c = "C" -> "c" [] c = "D" -> "d"
          [] c = "E" -> "e" [] c = "F" -> "f" [] c = "G" -> "g" [] c = "H" -> "h"
          [] c = "I" -> "i" [] c = "J" -> "j" [] c = "K" -> "k" [] c = "L" -> "l"
          [] c = "M" -> "m" [] c = "N" -> "n" [] c = "O" -> "o" [] c = "P" -> "p"
          [] c = "Q" -> "q" [] c = "R" -> "r" [] c = "S" -> "s" [] c = "T" -> "t"
          [] c = "U" -> "u" [] c = "V" -> "v" [] c = "W" -> "w" [] c = "X" -> "x"
          [] c = "Y" -> "y" [] c = "Z" -> "z"]

\* A long text is lowercased by halves.
RECURSIVE ToLowerCase(_)
ToLowerCase(s) ==
    IF s = "" THEN ""
    ELSE IF Len(s) = 1
    THEN (IF s \in DOMAIN UpperToLower THEN UpperToLower[s] ELSE s)
    ELSE LET mid == Len(s) \div 2
         IN  ToLowerCase(SubSeq(s, 1, mid)) \o ToLowerCase(SubSeq(s, mid + 1, Len(s)))

\* s.replace(/c/g, ""), c one character.
RECURSIVE RemoveAll(_, _)
RemoveAll(s, c) ==
    IF s = "" THEN ""
    ELSE (IF Char(s, 1) = c THEN "" ELSE Char(s, 1))
            \o RemoveAll(SubSeq(s, 2, Len(s)), c)

WhiteSpace == {" ", "\t", "\n", "\r"}

\* String.prototype.trim.
RECURSIVE Trim(_)
Trim(s) ==
    IF s = "" THEN ""
    ELSE IF Char(s, 1) \in WhiteSpace THEN Trim(SubSeq(s, 2, Len(s)))
    ELSE IF Char(s, Len(s)) \in WhiteSpace THEN Trim(SubSeq(s, 1, Len(s) - 1))
    ELSE s

\* The places of s where the literal text pat starts.
Occurrences(s, pat) ==
    {i \in 1..(Len(s) - Len(pat) + 1) : SubSeq(s, i, i + Len(pat) - 1) = pat}

NoMatch == [matched |-> FALSE]

\* s.match(/pre(.+)suf/): the leftmost place the pattern matches from, the
\* group taken greedily (up to the last suf that leaves it a character).
\* The texts of the model hold no line terminator, which "." would refuse.
Match1(s, pre, suf) ==
    LET ends(i)  == {j \in Occurrences(s, suf) : j >= i + Len(pre) + 1}
        starts   == {i \in Occurrences(s, pre) : ends(i) # {}}
    IN  IF starts = {} THEN NoMatch
        ELSE LET i == Min(starts)
                 j == Max(ends(i))
             IN  [matched |-> TRUE, g1 |-> SubSeq(s, i + Len(pre), j - 1)]

\* s.match(/pre(.+)mid(.+)/): as Match1, and the second group runs to the
\* end of the text and needs a character of its own.
Match2(s, pre, mid) ==
    LET ends(i)  == {j \in Occurrences(s, mid) :
                        j >= i + Len(pre) + 1 /\ j + Len(mid) <= Len(s)}
        starts   == {i \in Occurrences(s, pre) : ends(i) # {}}
    IN  IF starts = {} THEN NoMatch
        ELSE LET i == Min(starts)
                 j == Max(ends(i))
             IN  [matched |-> TRUE,
                  g1 |-> SubSeq(s, i + Len(pre), j - 1),
                  g2 |-> SubSeq(s, j + Len(mid), Len(s))]

\* js-levenshtein: the edit distance of two strings, one row at a time.
Min3(x, y, z) == IF x <= y THEN (IF x <= z THEN x ELSE z) ELSE (IF y <= z THEN y ELSE z)

RECURSIVE LevCells(_, _, _, _)
LevCells(prev, ca, b, row) ==
    IF Len(row) = Len(b) + 1 THEN row
    ELSE LET j    == Len(row)
             cost == IF Char(b, j) = ca THEN 0 ELSE 1
         IN  LevCells(prev, ca, b,
                      Append(row, Min3(prev[j + 1] + 1, row[j] + 1, prev[j] + cost)))

\* The rows for the characters lo..hi of a, from the row before them.  The
\* rows are folded by halves, the first half computed before the second is
\* entered, so that a long text nests no deeper than the halvings.
RECURSIVE LevRows(_, _, _, _, _)
LevRows(a, b, lo, hi, prev) ==
    IF lo > hi THEN prev
    ELSE IF lo = hi THEN LevCells(prev, Char(a, lo), b, <<prev[1] + 1>>)
    ELSE LET mid  == (lo + hi) \div 2
             half == LevRows(a, b, lo, mid, prev)
         IN  IF Len(half) > 0 THEN LevRows(a, b, mid + 1, hi, half) ELSE half

levenshtein(a, b) ==
    LevRows(a, b, 1, Len(a), [j \in 1..(Len(b) + 1) |-> j - 1])[Len(b) + 1]

(***************************************************************************)
(* Constants of the program                                                *)
(***************************************************************************)

wfmu == "WFMU"

wfmuLivestreamUrl == "http://stream0.wfmu.org/freeform-128k"

wfmuBaseUrl == "http://wfmu.org"

\* 30 * 24 * 60 * 60 * 1000 milliseconds, in days.
archiveAgeLimitDays == 30

\* Refresh the archive every hour.
archiveRefreshIntervalMilliseconds == 60 * 60 * 1000

\* let bestDistance = 10000
initialBestDistance == 10000

liveStreamShow ==
    [titleAnnounce |-> wfmu, description |-> wfmu, mp3Link |-> wfmuLivestreamUrl]

\* { play: liveStreamShow, wfmu: liveStreamShow }
defaultShows ==
    << [key |-> "play", val |-> liveStreamShow],
       [key |-> "wfmu", val |-> liveStreamShow] >>

(***************************************************************************)
(* JavaScript values and objects                                           *)
(***************************************************************************)

\* null and undefined; a string that may be null is carried as Str(s).
Null == [null |-> TRUE]

Undefined == [undefined |-> TRUE]

Str(s) == [str |-> s]

\* if (v), v a string or null: null and "" are falsy.
TruthyStr(v) == v # Null /\ v.str # ""

\* What every object inherits from Object.prototype under an all-lowercase
\* name (the handler lowercases the name it looks up).
ObjectPrototype ==
    [k \in {"constructor", "__proto__"} |->
        IF k = "constructor" THEN [builtin |-> "Object"]
        ELSE [builtin |-> "Object.prototype"]]

\* The names of the own properties of t.
KeySet(t) == {t[i].key : i \in 1..Len(t)}

HasOwn(t, k) == k \in KeySet(t)

Own(t, k) == t[CHOOSE i \in 1..Len(t) : t[i].key = k].val

\* t[k] read: the own property, else the inherited one, else undefined.
Get(t, k) ==
    IF HasOwn(t, k) THEN Own(t, k)
    ELSE IF k \in DOMAIN ObjectPrototype THEN ObjectPrototype[k]
    ELSE Undefined

\* t[k] = v: an own key keeps its place, a new one goes last.
Put(t, k, v) ==
    IF HasOwn(t, k)
    THEN [i \in 1..Len(t) |-> IF t[i].key = k THEN [key |-> k, val |-> v] ELSE t[i]]
    ELSE Append(t, [key |-> k, val |-> v])

\* Object.assign, had it added the source's entries without looking for the key.
AssignConcatenates(target, source) == target \o source

\* Object.assign(target, source): every own property of source, in order.
RECURSIVE Assign(_, _)
Assign(target, source) ==
    IF source = <<>> THEN target
    ELSE Assign(Put(target, Head(source).key, Head(source).val), Tail(source))

\* The merge with its last two arguments swapped: the current record wins.
MergeRefreshCurrentWins(current, latestArchives) ==
    Assign(Assign(<<>>, latestArchives), current)

\* archives = Object.assign({}, archives, latestArchives)
MergeRefresh(current, latestArchives) ==
    Assign(Assign(<<>>, current), latestArchives)

\* obj.field, undefined when the object has no such property.
Prop(obj, field) == IF field \in DOMAIN obj THEN obj[field] ELSE Undefined

(***************************************************************************)
(* getTitleSynonyms, applyShow                                             *)
(***************************************************************************)

\* toLowerCase, then the three replace calls.
NormalizeTitle(title) ==
    RemoveAll(RemoveAll(RemoveAll(ToLowerCase(title), "\""), ":"), "!")

\* getTitleSynonyms, had it returned the full title alone.
getTitleSynonymsTitleOnly(rawTitle) == <<NormalizeTitle(rawTitle)>>

getTitleSynonyms(rawTitle) ==
    LET title  == NormalizeTitle(rawTitle)
        sShow  == Match1(title, "", "'s show")
        theRP  == Match1(title, "the ", " radio programme")
    IN  <<title>>
          \o (IF sShow.matched THEN <<sShow.g1>> ELSE <<>>)
          \o (IF theRP.matched THEN <<theRP.g1>> ELSE <<>>)

\* The test of applyShow, had it left out the date.
ApplyShowAcceptsWithoutDate(triple) ==
    TruthyStr(triple.m3uLink) /\ TruthyStr(triple.title)

\* if (m3uLink && title && date)
ApplyShowAccepts(triple) ==
    TruthyStr(triple.m3uLink) /\ TruthyStr(triple.title) /\ TruthyStr(triple.date)

\* The record, had the text of the .m3u file been stored as it came.
NewArchiveUntrimmed(triple, data, found) ==
    [titleAnnounce |-> triple.title.str,
     description   |-> "WFMU archive",
     date          |-> triple.date.str,
     mp3Link       |-> data,
     dateFound     |-> found]

NewArchive(triple, data, found) ==
    [titleAnnounce |-> triple.title.str,
     description   |-> "WFMU archive",
     date          |-> triple.date.str,
     mp3Link       |-> Trim(data),
     dateFound     |-> found]

RECURSIVE PutAll(_, _, _)
PutAll(shows, keys, archive) ==
    IF keys = <<>> THEN shows
    ELSE PutAll(Put(shows, Head(keys), archive), Tail(keys), archive)

\* applyShow once axios.get(m3uLink) has answered with data: the record is
\* stamped with the time applyShow was entered and stored under every synonym.
ApplyShowWrite(shows, triple, data, found) ==
    PutAll(shows, getTitleSynonyms(triple.title.str), NewArchive(triple, data, found))

(***************************************************************************)
(* The two listing parsers, one item at a time                             *)
(***************************************************************************)

\* An HTML ".program" element: [title, dateText, href], a property missing
\* when the element has no such child.
HtmlTriple(item) ==
    LET dateMatches == IF "dateText" \in DOMAIN item
                       THEN Match1(Trim(item.dateText), "", ":")
                       ELSE NoMatch
    IN  [title   |-> IF "title" \in DOMAIN item THEN Str(item.title) ELSE Null,
         date    |-> IF dateMatches.matched
                     THEN Str(ToLowerCase(Trim(dateMatches.g1))) ELSE Null,
         m3uLink |-> IF "href" \in DOMAIN item
                     THEN Str(wfmuBaseUrl \o item.href) ELSE Null]

\* The loop, had it been left after the first match.
StripHostsOnce(showTitle) ==
    LET matchParts2 == Match2(showTitle, "", " with ")
    IN  IF matchParts2.matched THEN matchParts2.g1 ELSE showTitle

\* for (;;) { showTitle.match(/(.+) with (.+)/) ... }
RECURSIVE StripHosts(_)
StripHosts(showTitle) ==
    LET matchParts2 == Match2(showTitle, "", " with ")
    IN  IF matchParts2.matched THEN StripHosts(matchParts2.g1) ELSE showTitle

\* An XML <item>: [title, guid], a property missing when there is no such child.
XmlTriple(item) ==
    LET matchParts1 == IF "title" \in DOMAIN item
                       THEN Match2(item.title, "WFMU MP3 Archive: ", " from ")
                       ELSE NoMatch
    IN  [title   |-> IF matchParts1.matched THEN Str(StripHosts(matchParts1.g1))
                     ELSE IF "title" \in DOMAIN item THEN Str(item.title)
                     ELSE Null,
         date    |-> IF matchParts1.matched THEN Str(matchParts1.g2) ELSE Null,
         m3uLink |-> IF "guid" \in DOMAIN item THEN Str(item.guid) ELSE Null]

(***************************************************************************)
(* Bounds and inputs                                                       *)
(***************************************************************************)

\* Refreshes the interval timer starts.
MaxTicks == 1

\* The last day of the clock.
MaxNow == 32

\* The clock moves by one of these numbers of days.
ClockSteps == {30, 31}

\* What recentarchives.php may hold: sequences of ".program" elements.
HtmlPages ==
    { << [title |-> "Wake", dateText |-> "1/1: ", href |-> "/w.m3u"],
         [title |-> "Gap", href |-> "/g.m3u"] >>,
      << [title |-> "Null", dateText |-> "Fri: ", href |-> "/n.m3u"],
         [title |-> "Al's Show", dateText |-> "Thu: ", href |-> "/a.m3u"] >>,
      << [dateText |-> "Sat: ", href |-> "/x.m3u"],
         [title |-> "Al's Show", dateText |-> "Thu: ", href |-> "/a.m3u"] >> }

\* What mp3.xml may hold: sequences of <item> elements.
XmlFeeds ==
    { << [title |-> "WFMU MP3 Archive: Wake with Co-Host from 1/1", guid |-> "g1"],
         [title |-> "Station news", guid |-> "g2"],
         [title |-> "WFMU MP3 Archive: Lost from Tue"],
         [title |-> "WFMU MP3 Archive: Wake! from Wed", guid |-> "g4"] >>,
      << [title |-> "WFMU MP3 Archive: Play from Sat", guid |-> "g5"],
         [title |-> "WFMU MP3 Archive: WFMU from Sun", guid |-> "g6"] >> }

\* What an .m3u file may hold.
M3uBodies == {"http://mp3/1\n"}

\* The archive names asked for.
Queries == {"WFMU", "Wake", "Wake!", "Ale", "constructor"}

Triple(source, item) ==
    IF source = "html" THEN HtmlTriple(item) ELSE XmlTriple(item)

\* The triples of a listing, in document order.
Triples(source, items) == [i \in 1..Len(items) |-> Triple(source, items[i])]

(***************************************************************************)
(* getBestMatchArchive and the playArchive handler                         *)
(***************************************************************************)

\* archive.dateFound && now - archive.dateFound > archiveAgeLimitMilliseconds
Expired(archive, now) ==
    /\ "dateFound" \in DOMAIN archive
    /\ archive.dateFound # 0
    /\ now - archive.dateFound > archiveAgeLimitDays

\* The forEach, had an entry past the age limit that leads on distance
\* lowered bestDistance before it was disregarded.
RECURSIVE BestScanExpiredLowers(_, _, _, _, _)
BestScanExpiredLowers(t, now, title, i, acc) ==
    IF i > Len(t) THEN acc
    ELSE LET distance == levenshtein(title, t[i].key)
         IN  IF distance < acc.bestDistance
             THEN BestScanExpiredLowers(t, now, title, i + 1,
                    IF Expired(t[i].val, now)
                    THEN [best |-> acc.best, bestDistance |-> distance]
                    ELSE [best |-> Str(t[i].key), bestDistance |-> distance])
             ELSE BestScanExpiredLowers(t, now, title, i + 1, acc)

\* The forEach of getBestMatchArchive from entry i on: [best, bestDistance].
RECURSIVE BestScan(_, _, _, _, _)
BestScan(t, now, title, i, acc) ==
    IF i > Len(t) THEN acc
    ELSE LET distance == levenshtein(title, t[i].key)
         IN  IF distance < acc.bestDistance /\ ~Expired(t[i].val, now)
             THEN BestScan(t, now, title, i + 1,
                           [best |-> Str(t[i].key), bestDistance |-> distance])
             ELSE BestScan(t, now, title, i + 1, acc)

\* A property name: null names the property "null".
PropertyKey(k) == IF k = Null THEN "null" ELSE k.str

getBestMatchArchive(t, now, title) ==
    LET scan == BestScan(t, now, title, 1,
                         [best |-> Null, bestDistance |-> initialBestDistance])
    IN  Get(t, PropertyKey(scan.best))

\* playArchive, had the exact hit been put to the age limit as well.
playArchiveChecksAge(t, now, archiveName) ==
    LET requestedArchiveName == ToLowerCase(archiveName)
        exact   == Get(t, requestedArchiveName)
        fuzzy   == exact \in {Null, Undefined} \/ Expired(exact, now)
        matched == IF fuzzy THEN getBestMatchArchive(t, now, requestedArchiveName)
                   ELSE exact
        dateAnnounce == IF "date" \in DOMAIN matched /\ matched.date # ""
                        THEN " from " \o matched.date ELSE ""
        announce == IF "titleAnnounce" \in DOMAIN matched
                    THEN matched.titleAnnounce ELSE "undefined"
        prompt  == [name        |-> Prop(matched, "titleAnnounce"),
                    description |-> Prop(matched, "description"),
                    url         |-> Prop(matched, "mp3Link"),
                    speech      |-> "OK, playing " \o announce \o dateAnnounce]
    IN  [op          |-> "playArchive",
         archiveName |-> archiveName,
         requested   |-> requestedArchiveName,
         fuzzy       |-> fuzzy,
         matched     |-> matched,
         conv        |-> IF matched \in {Null, Undefined}
                         THEN [session |-> "id"]
                         ELSE [session |-> "id", prompt |-> prompt]]

\* The playArchive branch of the POST handler, on the table as it is now.
\* Besides conv (the JSON answer), the record keeps what the handler logged
\* or decided on the way: the name looked up, whether getBestMatchArchive
\* ran and the value matched.
playArchive(t, now, archiveName) ==
    LET requestedArchiveName == ToLowerCase(archiveName)
        exact   == Get(t, requestedArchiveName)
        fuzzy   == exact \in {Null, Undefined}
        matched == IF fuzzy THEN getBestMatchArchive(t, now, requestedArchiveName)
                   ELSE exact
        dateAnnounce == IF "date" \in DOMAIN matched /\ matched.date # ""
                        THEN " from " \o matched.date ELSE ""
        announce == IF "titleAnnounce" \in DOMAIN matched
                    THEN matched.titleAnnounce ELSE "undefined"
        prompt  == [name        |-> Prop(matched, "titleAnnounce"),
                    description |-> Prop(matched, "description"),
                    url         |-> Prop(matched, "mp3Link"),
                    speech      |-> "OK, playing " \o announce \o dateAnnounce]
    IN  [op          |-> "playArchive",
         archiveName |-> archiveName,
         requested   |-> requestedArchiveName,
         fuzzy       |-> fuzzy,
         matched     |-> matched,
         conv        |-> IF matched \in {Null, Undefined}
                         THEN [session |-> "id"]
                         ELSE [session |-> "id", prompt |-> prompt]]

(***************************************************************************)
(* State                                                                   *)
(***************************************************************************)

VARIABLES
    archives,   \* var archives: the live table
    now,        \* Date.now(), in days
    pc,         \* where the module body is: "html" (awaiting line 234),
                \* "firstXml" (awaiting line 238), "serving" (timer set and
                \* server listening), "crashed" (ended by a rejection)
    refreshes,  \* the refresh functions that are running, oldest first
    ticks,      \* how often the interval timer has fired
    last        \* what the last step reported: the answer of a POST, or
                \* the outcome of a refresh that ended

vars == <<archives, now, pc, refreshes, ticks, last>>

\* fetchHtml(url) is awaited.
Fetching(source) == [phase |-> "listing", source |-> source]

\* A refresh function is called: besides awaiting its listing, the refresh
\* remembers the live table of that moment, which the program does not keep
\* (it is here to tell what a refresh found from what others stored since).
Begin(source, table) == Fetching(source) @@ [started |-> table]

Nothing == [op |-> "none"]

Init ==
    /\ archives = defaultShows
    /\ now = 1
    /\ pc = "html"
    /\ refreshes = <<Begin("html", defaultShows)>>
    /\ ticks = 0
    /\ last = Nothing

Without(seq, k) == [n \in 1..(Len(seq) - 1) |-> IF n < k THEN seq[n] ELSE seq[n + 1]]

\* The value the refresh function returns becomes the live table: the HTML
\* rebuild replaces it (line 234), refreshFunction merges into it (line 229).
Publish(source, current, shows) ==
    IF source = "html" THEN shows ELSE MergeRefresh(current, shows)

\* Settle, had refreshFunction merged into the table it found when it was
\* called instead of the table of the moment.
SettleIntoStarted(k, triples, shows) ==
    /\ archives' = Publish(refreshes[k].source, refreshes[k].started, shows)
    /\ refreshes' = IF pc = "html" THEN <<Begin("xml", archives')>>
                               ELSE Without(refreshes, k)
    /\ pc' = CASE pc = "html" -> "firstXml"
               [] pc = "firstXml" -> "serving"
               [] OTHER -> pc
    /\ last' = [op |-> "settled", source |-> refreshes[k].source,
                started |-> refreshes[k].started,
                before |-> archives, triples |-> triples, shows |-> shows]

\* async.each has called back without an error: the refresh function returns
\* shows, the awaiting code stores it and goes on (after the HTML rebuild,
\* to the first refreshFunction; after that, to the timer and the server).
\* The step reports the triples the pass was given besides the two tables.
Settle(k, triples, shows) ==
    /\ archives' = Publish(refreshes[k].source, archives, shows)
    /\ refreshes' = IF pc = "html" THEN <<Begin("xml", archives')>>
                               ELSE Without(refreshes, k)
    /\ pc' = CASE pc = "html" -> "firstXml"
               [] pc = "firstXml" -> "serving"
               [] OTHER -> pc
    /\ last' = [op |-> "settled", source |-> refreshes[k].source,
                started |-> refreshes[k].started,
                before |-> archives, triples |-> triples, shows |-> shows]

\* Reject, had the failure handler put the table back to its defaults.
RejectResetsTable(k, cause) ==
    /\ refreshes' = Without(refreshes, k)
    /\ pc' \in (IF pc = "serving" THEN {"serving", "crashed"} ELSE {"crashed"})
    /\ last' = [op |-> "rejected", source |-> refreshes[k].source,
                cause |-> cause, before |-> archives]
    /\ archives' = defaultShows

\* The refresh function rejects: nothing is stored.  At the top level the
\* rejected await ends the process; a rejection of the timer's call is
\* unhandled, which ends the process or not, by the runtime's setting.
Reject(k, cause) ==
    /\ refreshes' = Without(refreshes, k)
    /\ pc' \in (IF pc = "serving" THEN {"serving", "crashed"} ELSE {"crashed"})
    /\ last' = [op |-> "rejected", source |-> refreshes[k].source,
                cause |-> cause, before |-> archives]
    /\ UNCHANGED archives

\* fetchHtml answers: shows starts as a copy of defaultShows and async.each
\* enters applyShow for every item, which stamps the time and, for a whole
\* triple, awaits the .m3u file.
ListingFetchedFrom(k, listings) ==
    /\ pc # "crashed"
    /\ refreshes[k].phase = "listing"
    /\ \E items \in listings :
        LET triples == Triples(refreshes[k].source, items)
            pending == {i \in 1..Len(items) : ApplyShowAccepts(triples[i])}
        IN  IF pending = {}
            THEN Settle(k, triples, defaultShows)
            ELSE /\ refreshes' = [refreshes EXCEPT ![k] =
                                [phase |-> "items", source |-> refreshes[k].source,
                                 started |-> refreshes[k].started,
                                 triples |-> triples, shows |-> defaultShows,
                                 found |-> now, pending |-> pending]]
                 /\ last' = Nothing
                 /\ UNCHANGED <<archives, pc>>
    /\ UNCHANGED <<now, ticks>>

\* The listing is one of those the model lets the two URLs answer with.
ListingFetched(k) ==
    ListingFetchedFrom(k, IF refreshes[k].source = "html" THEN HtmlPages ELSE XmlFeeds)

\* fetchHtml rejects.
ListingFailed(k) ==
    /\ pc # "crashed"
    /\ refreshes[k].phase = "listing"
    /\ Reject(k, "listing")
    /\ UNCHANGED <<now, ticks>>

\* ItemFetched, had applyShow written into the live table as well.
ItemFetchedWritesLive(k, i) ==
    /\ pc # "crashed"
    /\ refreshes[k].phase = "items"
    /\ i \in refreshes[k].pending
    /\ \E data \in M3uBodies :
        LET r     == refreshes[k]
            shows == ApplyShowWrite(r.shows, r.triples[i], data, r.found)
        IN  IF r.pending = {i}
            THEN Settle(k, r.triples, shows)
            ELSE /\ refreshes' = [refreshes EXCEPT ![k].shows = shows,
                                                   ![k].pending = @ \ {i}]
                 /\ last' = Nothing
                 /\ archives' = ApplyShowWrite(archives, r.triples[i], data, r.found)
                 /\ UNCHANGED pc
    /\ UNCHANGED <<now, ticks>>

\* axios.get(m3uLink) answers for item i: applyShow writes its keys, and the
\* last answer of the pass lets async.each call back.
ItemFetched(k, i) ==
    /\ pc # "crashed"
    /\ refreshes[k].phase = "items"
    /\ i \in refreshes[k].pending
    /\ \E data \in M3uBodies :
        LET r     == refreshes[k]
            shows == ApplyShowWrite(r.shows, r.triples[i], data, r.found)
        IN  IF r.pending = {i}
            THEN Settle(k, r.triples, shows)
            ELSE /\ refreshes' = [refreshes EXCEPT ![k].shows = shows,
                                                   ![k].pending = @ \ {i}]
                 /\ last' = Nothing
                 /\ UNCHANGED <<archives, pc>>
    /\ UNCHANGED <<now, ticks>>

\* axios.get(m3uLink) rejects for item i: applyShow throws, async.each calls
\* back with the error at once and the refresh function rejects.  What the
\* other items still write goes into a table nobody holds any more.
ItemFetchFailed(k, i) ==
    /\ pc # "crashed"
    /\ refreshes[k].phase = "items"
    /\ i \in refreshes[k].pending
    /\ Reject(k, "item")
    /\ UNCHANGED <<now, ticks>>

\* The timer fires, for at most limit times in all.
TickWithin(limit) ==
    /\ pc = "serving"
    /\ ticks < limit
    /\ ticks' = ticks + 1
    /\ refreshes' = Append(refreshes, Begin("xml", archives))
    /\ last' = Nothing
    /\ UNCHANGED <<archives, now, pc>>

\* The timer, had it been set before the two refreshes of the startup.
IntervalTickFromStart ==
    /\ pc # "crashed"
    /\ ticks < MaxTicks
    /\ ticks' = ticks + 1
    /\ refreshes' = Append(refreshes, Begin("xml", archives))
    /\ last' = Nothing
    /\ UNCHANGED <<archives, now, pc>>

\* setInterval(refreshFunction, ...) fires: one more refreshFunction starts.
IntervalTick == TickWithin(MaxTicks)

\* A POST with handler.name "playArchive".
PlayArchive(archiveName) ==
    /\ pc = "serving"
    /\ last' = playArchive(archives, now, archiveName)
    /\ UNCHANGED <<archives, now, pc, refreshes, ticks>>

\* Time passes.  A refresh takes seconds and the clock counts days, so the
\* clock moves between refreshes.
AdvanceClock ==
    /\ pc # "crashed"
    /\ refreshes = <<>>
    /\ \E d \in ClockSteps :
        /\ now + d <= MaxNow
        /\ now' = now + d
    /\ last' = Nothing
    /\ UNCHANGED <<archives, pc, refreshes, ticks>>

Next ==
    \/ \E k \in 1..Len(refreshes) : ListingFetched(k)
    \/ \E k \in 1..Len(refreshes) : ListingFailed(k)
    \/ \E k \in 1..Len(refreshes) : \E i \in 1..4 : ItemFetched(k, i)
    \/ \E k \in 1..Len(refreshes) : \E i \in 1..4 : ItemFetchFailed(k, i)
    \/ IntervalTick
    \/ \E q \in Queries : PlayArchive(q)
    \/ AdvanceClock

Spec == Init /\ [][Next]_vars

(***************************************************************************)
(* The functions on their own                                              *)
(*                                                                         *)
(* A second specification applies getTitleSynonyms, the title parsing of   *)
(* refreshArchiveListFromXml with applyShow, and the playArchive handler   *)
(* to one input each, drawn by the initial state from the sets below.  The *)
(* table is the one the server starts with when both listings were empty,  *)
(* and no refresh is running.                                              *)
(***************************************************************************)

\* n copies of s, one after the other.
RECURSIVE Repeat(_, _)
Repeat(s, n) ==
    IF n = 0 THEN ""
    ELSE IF n % 2 = 1 THEN s \o Repeat(s, n - 1)
    ELSE LET half == Repeat(s, n \div 2) IN half \o half

\* Show titles as the listings give them.
Titles ==
    { lead \o name \o tail :
        lead \in {"", "The ", "Over the "},
        name \in {"Al", "Clay Pigeon", "Glen Jones", "Q: \"A\"!"},
        tail \in {"", "'s Show", " Radio Programme", "'s Showcase",
                  "'S SHOW!", "'s Show's Show", "'s Show Radio Programme"} }
    \cup {"'s Show", "The  Radio Programme", "The Radio Programme"}

\* Texts of the <title> of an <item>.
ItemTitles ==
    { lead \o title \o date :
        lead  \in {"WFMU MP3 Archive: ", "MP3 Archive: ", ""},
        title \in {"Wake", "Wake with Co-Host", "A with B with C", " with X",
                   "a with with b", "Live from NYC"},
        date  \in {" from Monday 1/1", " from a from b", " from ", ""} }

\* Archive names far longer than any title, around the first bestDistance.
LongQueries ==
    { Repeat("x", n) : n \in {initialBestDistance - 1, initialBestDistance,
                              initialBestDistance + 4} }

Input(fn, arg) == [op |-> "input", fn |-> fn, arg |-> arg]

FunctionsInit ==
    /\ archives = defaultShows
    /\ now = 1
    /\ pc = "serving"
    /\ refreshes = <<>>
    /\ ticks = 0
    /\ last \in { Input("getTitleSynonyms", t) : t \in Titles }
               \cup { Input("xmlItem", t) : t \in ItemTitles }
               \cup { Input("playArchive", q) : q \in LongQueries }

\* applyShow(title, date, m3uLink, shows) on a file that was fetched.
applyShow(shows, triple, data, found) ==
    IF ApplyShowAccepts(triple) THEN ApplyShowWrite(shows, triple, data, found)
    ELSE shows

CallGetTitleSynonyms ==
    /\ last.op = "input" /\ last.fn = "getTitleSynonyms"
    /\ last' = [op |-> "getTitleSynonyms", title |-> last.arg,
                synonyms |-> getTitleSynonyms(last.arg)]
    /\ UNCHANGED <<archives, now, pc, refreshes, ticks>>

\* The iteratee of refreshArchiveListFromXml on an <item> with a <guid> and
\* the <title> drawn, into a table that holds the defaults.
CallXmlItem ==
    /\ last.op = "input" /\ last.fn = "xmlItem"
    /\ \E data \in M3uBodies :
        LET triple == XmlTriple([title |-> last.arg, guid |-> "g"])
        IN  last' = [op |-> "xmlItem", title |-> last.arg, triple |-> triple,
                     shows |-> applyShow(defaultShows, triple, data, now)]
    /\ UNCHANGED <<archives, now, pc, refreshes, ticks>>

CallPlayArchive ==
    /\ last.op = "input" /\ last.fn = "playArchive"
    /\ PlayArchive(last.arg)

FunctionsNext ==
    \/ CallGetTitleSynonyms
    \/ CallXmlItem
    \/ CallPlayArchive

FunctionsSpec == FunctionsInit /\ [][FunctionsNext]_vars

(***************************************************************************)
(* Refreshes that overlap                                                  *)
(*                                                                         *)
(* A third specification runs the program from its start on short          *)
(* listings and lets the timer fire again while the refresh of an earlier  *)
(* tick is still fetching.  It leaves out the requests and the clock.      *)
(***************************************************************************)

\* Ticks of the timer in this specification.
MaxOverlapTicks == 2

OverlapHtmlPages ==
    { << [title |-> "Gap", dateText |-> "Mon: ", href |-> "/g.m3u"] >> }

OverlapXmlFeeds ==
    { << >>,
      << [title |-> "WFMU MP3 Archive: Wake from 1/1", guid |-> "g1"] >>,
      << [title |-> "WFMU MP3 Archive: Lost from Tue", guid |-> "g3"] >> }

OverlapListingFetched(k) ==
    ListingFetchedFrom(k, IF refreshes[k].source = "html" THEN OverlapHtmlPages
                          ELSE OverlapXmlFeeds)

OverlapNext ==
    \/ \E k \in 1..Len(refreshes) : OverlapListingFetched(k)
    \/ \E k \in 1..Len(refreshes) : ListingFailed(k)
    \/ \E k \in 1..Len(refreshes) : ItemFetched(k, 1)
    \/ \E k \in 1..Len(refreshes) : ItemFetchFailed(k, 1)
    \/ TickWithin(MaxOverlapTicks)

OverlapSpec == Init /\ [][OverlapNext]_vars

(***************************************************************************)
(* Claims                                                                  *)
(***************************************************************************)

PermanentKeys == {"wfmu", "play"}

Scraped(archive) == "dateFound" \in DOMAIN archive

\* C1: in every reachable state the keys "wfmu" and "play" are present in the
\* live table and both map to the live-stream record (no date, no
\* dateFound), so a request for "wfmu" is answered with that record.
C1_PermanentKeysLive ==
    /\ \A k \in PermanentKeys :
          HasOwn(archives, k) /\ Own(archives, k) = liveStreamShow
    /\ (last.op = "playArchive" /\ last.requested = "wfmu")
          => last.matched = liveStreamShow

\* C2: a refresh is never aborted by the failure of one triple's .m3u fetch:
\* a pass that has started on its items always settles, so the only
\* rejection a refresh can end with is that of the listing fetch.
C2_TripleFailureDoesNotAbort ==
    last.op = "rejected" => last.cause = "listing"

\* C3: when the fetch of the whole listing fails, the live table after the
\* failed refresh is the table from before it, entry for entry.
C3_FailedListingKeepsTable ==
    (last.op = "rejected" /\ last.cause = "listing") => archives = last.before

\* A listing fetch has failed while the table held scraped entries.
C3_Witness ==
    /\ last.op = "rejected"
    /\ last.cause = "listing"
    /\ \E n \in 1..Len(archives) : Scraped(archives[n].val)

\* C4: getBestMatchArchive, run because the name asked for is no key, never
\* answers with a scraped record older than the age limit.
C4_FuzzyNeverStale ==
    (last.op = "playArchive" /\ last.fuzzy) => ~Expired(last.matched, now)

C6_NoCandidateNoPrompt ==
    ( /\ last.op = "playArchive"
      /\ ~HasOwn(archives, last.requested)
      /\ \A n \in 1..Len(archives) : Expired(archives[n].val, now) )
        => /\ last.matched = Undefined
           /\ "prompt" \notin DOMAIN last.conv

\* C7: the live table changes only in the one step in which a refresh that
\* has no fetch left to wait for hands over its finished table, and then to
\* the table Publish makes of the old one and the finished one; a request is
\* answered from the live table of the moment.  No step that writes into a
\* table under construction touches the live table.
C7_TablePublishedWhole ==
    [][ /\ (archives' # archives) =>
              \E k \in 1..Len(refreshes) :
                 /\ refreshes[k].phase = "items" => Cardinality(refreshes[k].pending) = 1
                 /\ refreshes' = IF pc = "html" THEN <<Begin("xml", archives')>>
                                 ELSE Without(refreshes, k)
                 /\ last'.op = "settled"
                 /\ archives' = Publish(refreshes[k].source, archives, last'.shows)
        /\ (last'.op = "playArchive") =>
              /\ archives' = archives
              /\ last' = playArchive(archives, now, last'.archiveName) ]_vars

\* A request for "wake" is answered from the live table while a refresh has
\* already written another record for "wake" into the table it is building.
C7_Witness ==
    /\ last.op = "playArchive"
    /\ last.requested = "wake"
    /\ HasOwn(archives, "wake")
    /\ last.matched = Own(archives, "wake")
    /\ \E k \in 1..Len(refreshes) :
          /\ refreshes[k].phase = "items"
          /\ HasOwn(refreshes[k].shows, "wake")
          /\ Own(refreshes[k].shows, "wake") # last.matched

NoKeyTwice(t) == Cardinality(KeySet(t)) = Len(t)

\* C8: the table refreshFunction stores has the keys of the current table
\* and of the fresh one and no others, the fresh record under every key of
\* the fresh table, the current record under every other key.
C8_MergeUnionFreshWins ==
    (last.op = "settled" /\ last.source = "xml") =>
        /\ KeySet(archives) = KeySet(last.before) \cup KeySet(last.shows)
        /\ NoKeyTwice(archives)
        /\ \A k \in KeySet(last.shows) : Own(archives, k) = Own(last.shows, k)
        /\ \A k \in KeySet(last.before) \ KeySet(last.shows) :
              Own(archives, k) = Own(last.before, k)

\* A merge with a key in both tables under different records and a key in
\* the current table alone.
C8_Witness ==
    /\ last.op = "settled"
    /\ last.source = "xml"
    /\ \E k \in KeySet(last.before) \cap KeySet(last.shows) :
          /\ k \notin PermanentKeys
          /\ Own(last.before, k) # Own(last.shows, k)
    /\ KeySet(last.before) \ KeySet(last.shows) # {}

\* C9: merging a table into itself gives the table back, for the live table
\* and for every table under construction; an XML refresh whose fresh table
\* equals the live table leaves the live table as it was.
C9_MergeIdempotent ==
    /\ MergeRefresh(archives, archives) = archives
    /\ \A k \in 1..Len(refreshes) :
          refreshes[k].phase = "items" =>
              MergeRefresh(refreshes[k].shows, refreshes[k].shows) = refreshes[k].shows
    /\ (last.op = "settled" /\ last.source = "xml" /\ last.shows = last.before)
          => archives = last.before

\* An XML refresh came back with exactly the live table, scraped entry included.
C9_Witness ==
    /\ last.op = "settled"
    /\ last.source = "xml"
    /\ last.shows = last.before
    /\ \E n \in 1..Len(last.before) : Scraped(last.before[n].val)

\* C10: every key of the live table is lowercase and free of the characters
\* ", : and !, and the name a request asks for is put through the same
\* normalization before it is looked up.
C10_KeysAndQueriesNormalized ==
    /\ \A n \in 1..Len(archives) : archives[n].key = NormalizeTitle(archives[n].key)
    /\ last.op = "playArchive" => last.requested = NormalizeTitle(last.archiveName)

\* A triple with a title, a date and a link, none of them empty.
Whole(triple) ==
    \A f \in {"title", "date", "m3uLink"} : triple[f] # Null /\ triple[f].str # ""

WholeIn(triples) == {i \in 1..Len(triples) : Whole(triples[i])}

Elements(seq) == {seq[i] : i \in 1..Len(seq)}

\* C11: a pass over a listing with exactly one whole triple ends with a
\* table whose keys are "play", "wfmu" and the keys getTitleSynonyms gives
\* for the title, the normalized title among them; all keys of the title
\* hold one and the same record, which announces the triple's title and
\* date, whose mp3Link is the text of the .m3u file without the white space
\* around it and whose dateFound is set; the HTML rebuild makes this table
\* the live one.
C11_OneTripleIngested ==
    (last.op = "settled" /\ Cardinality(WholeIn(last.triples)) = 1) =>
        LET triple  == last.triples[CHOOSE i \in WholeIn(last.triples) : TRUE]
            keys    == Elements(getTitleSynonyms(triple.title.str))
            archive == Own(last.shows, NormalizeTitle(triple.title.str))
        IN  /\ NormalizeTitle(triple.title.str) \in keys
            /\ KeySet(last.shows) = PermanentKeys \cup keys
            /\ \A k \in keys : Own(last.shows, k) = archive
            /\ archive.titleAnnounce = triple.title.str
            /\ archive.date = triple.date.str
            /\ \E data \in M3uBodies :
                  \E i, j \in 1..Len(data) :
                     /\ archive.mp3Link = SubSeq(data, i, j)
                     /\ \A n \in (1..(i - 1)) \cup ((j + 1)..Len(data)) :
                           Char(data, n) \in WhiteSpace
                     /\ Char(data, i) \notin WhiteSpace
                     /\ Char(data, j) \notin WhiteSpace
            /\ "dateFound" \in DOMAIN archive /\ archive.dateFound >= 1
            /\ last.source = "html" => archives = last.shows

\* The HTML rebuild has ended on a listing of two entries, one of them whole,
\* whose title has a synonym, and the .m3u file ended in white space.
C11_Witness ==
    /\ last.op = "settled"
    /\ last.source = "html"
    /\ Len(last.triples) = 2
    /\ Cardinality(WholeIn(last.triples)) = 1
    /\ HasOwn(archives, "al") /\ HasOwn(archives, "al's show")
    /\ Own(archives, "al") = Own(archives, "al's show")
    /\ \E data \in M3uBodies : Own(archives, "al").mp3Link # data

\* The places of s where pat starts with a character before it and one after it.
Inner(s, pat) ==
    {j \in Occurrences(s, pat) : j >= 2 /\ j + Len(pat) <= Len(s)}

C13_XmlTitleExtraction ==
    last.op = "xmlItem" =>
        LET raw    == last.title
            pre    == "WFMU MP3 Archive: "
            from   == " from "
            with   == " with "
            triple == last.triple
            form   == \E i \in Occurrences(raw, pre), j \in Occurrences(raw, from) :
                          j >= i + Len(pre) + 1 /\ j + Len(from) <= Len(raw)
        IN  /\ form =>
                  /\ triple.title # Null /\ triple.date # Null
                  /\ LET title == triple.title.str
                         date  == triple.date.str
                         at    == Len(raw) - Len(date) - Len(from) + 1
                     IN  /\ title # "" /\ date # ""
                         /\ SubSeq(raw, at, Len(raw)) = from \o date
                         /\ \A j \in Occurrences(raw, from) :
                               j + Len(from) <= Len(raw) => j <= at
                         /\ \E i \in Occurrences(raw, pre) :
                               LET whole == SubSeq(raw, i + Len(pre), at - 1)
                                   rest  == SubSeq(whole, Len(title) + 1, Len(whole))
                               IN  /\ SubSeq(whole, 1, Len(title)) = title
                                   /\ \/ rest = ""
                                      \/ /\ Len(rest) > Len(with)
                                         /\ SubSeq(rest, 1, Len(with)) = with
                         /\ Inner(title, with) = {}
                         /\ HasOwn(last.shows, NormalizeTitle(title))
                         /\ Own(last.shows, NormalizeTitle(title)).date = date
            /\ ~form => (triple.date = Null /\ last.shows = defaultShows)
            /\ raw = "WFMU MP3 Archive: Wake with Co-Host from Monday 1/1"
                  => (triple.title = Str("Wake") /\ triple.date = Str("Monday 1/1"))

\* An item with two " with " clauses was parsed and stored.
C13_Witness ==
    /\ last.op = "xmlItem"
    /\ last.title = "WFMU MP3 Archive: A with B with C from Monday 1/1"
    /\ last.triple.title = Str("A")
    /\ HasOwn(last.shows, "a")

\* The entries of the live table that are not past the age limit.
Fresh == {n \in 1..Len(archives) : ~Expired(archives[n].val, now)}

Distance(n) == levenshtein(last.requested, archives[n].key)

\* C14: when getBestMatchArchive runs and the table has an entry that is
\* not past the age limit, the record answered is that of such an entry
\* whose key is as close to the name asked for as the key of any other such
\* entry, however close the keys of the entries past the limit are.
C14_FuzzyBestOfFresh ==
    (last.op = "playArchive" /\ last.fuzzy /\ Fresh # {}) =>
        \E n \in Fresh :
            /\ last.matched = archives[n].val
            /\ \A m \in Fresh : Distance(n) <= Distance(m)

\* An entry past the age limit is closer to the name than every other
\* entry, it stands in the table before the closest entry within the limit,
\* and the record of that entry was answered.
C14_Witness ==
    /\ last.op = "playArchive"
    /\ last.fuzzy
    /\ \E n \in Fresh :
          /\ last.matched = archives[n].val
          /\ \A m \in Fresh \ {n} : Distance(n) < Distance(m)
          /\ \E e \in 1..(n - 1) : e \notin Fresh /\ Distance(e) < Distance(n)

\* C15: when getBestMatchArchive runs and the table has an entry that is
\* not past the age limit, the answer is the record of such an entry,
\* however long the name asked for is.
C15_FreshEntryAlwaysFound ==
    (last.op = "playArchive" /\ last.fuzzy /\ Fresh # {}) =>
        /\ \E n \in Fresh : last.matched = archives[n].val
        /\ "prompt" \in DOMAIN last.conv

KeysOf(triple) == Elements(getTitleSynonyms(triple.title.str))

\* C16: the table a pass ends with holds, under every key of a whole
\* triple, the record of the last whole triple of the listing that has this
\* key, in whatever order the .m3u files were answered.
C16_LastInDocumentWins ==
    last.op = "settled" =>
        \A i \in WholeIn(last.triples) :
            \A k \in KeysOf(last.triples[i]) :
                (\A j \in WholeIn(last.triples) :
                    j > i => k \notin KeysOf(last.triples[j]))
                => /\ Own(last.shows, k).titleAnnounce = last.triples[i].title.str
                   /\ Own(last.shows, k).date = last.triples[i].date.str

\* The keys of the triples of a listing whose places are in S.
KeysOfAll(triples, S) == UNION {KeysOf(triples[i]) : i \in S}

TitlesOfAll(triples, S) == {triples[i].title.str : i \in S}

\* C17: a pass never waits for the .m3u file of an entry that lacks its
\* title, its date or its link, and the table it builds, while it runs and
\* when it ends, has the permanent keys and the keys of the whole triples
\* written so far and no others, each scraped record announcing the title of
\* a whole triple: the entries with a part missing leave no trace, and the
\* whole entries around them are stored.
C17_PartialEntrySkipped ==
    /\ \A k \in 1..Len(refreshes) :
          refreshes[k].phase = "items" =>
              LET r       == refreshes[k]
                  written == WholeIn(r.triples) \ r.pending
              IN  /\ r.pending \subseteq WholeIn(r.triples)
                  /\ KeySet(r.shows) = PermanentKeys \cup KeysOfAll(r.triples, written)
    /\ last.op = "settled" =>
          /\ KeySet(last.shows) =
                PermanentKeys \cup KeysOfAll(last.triples, WholeIn(last.triples))
          /\ \A n \in 1..Len(last.shows) :
                Scraped(last.shows[n].val) =>
                    last.shows[n].val.titleAnnounce
                        \in TitlesOfAll(last.triples, WholeIn(last.triples))

\* A pass has ended on a listing with an entry without a title (HTML) or
\* without a link (XML) that stands before a whole entry, which was stored.
C17_Witness ==
    /\ last.op = "settled"
    /\ \E i, j \in 1..Len(last.triples) :
          /\ i < j
          /\ last.triples[i].date # Null
          /\ last.triples[i].title = Null \/ last.triples[i].m3uLink = Null
          /\ j \in WholeIn(last.triples)
          /\ HasOwn(last.shows, NormalizeTitle(last.triples[j].title.str))

\* C18: a refresh that ends because its listing could not be fetched
\* leaves the process running, so that requests go on being answered and
\* the timer starts the next refresh.
C18_FailedCycleKeepsServing ==
    (last.op = "rejected" /\ last.cause = "listing") => pc # "crashed"

C20_KeysAndRecordsKept ==
    /\ (last.op = "settled" /\ last.source = "xml") =>
          \A k \in KeySet(last.before) :
              /\ HasOwn(archives, k)
              /\ k \notin KeysOfAll(last.triples, WholeIn(last.triples))
                    => Own(archives, k) = Own(last.before, k)
    /\ (last.op = "rejected" /\ last.source = "xml") =>
          \A k \in KeySet(last.before) :
              HasOwn(archives, k) /\ Own(archives, k) = Own(last.before, k)

\* C21: when an XML refresh stores its table, the live table becomes the
\* merge of the live table of that moment with the table of the refresh:
\* it has every key that was live when the refresh was called, every key
\* another refresh has stored since, and every key of the refresh's own
\* table; and while a refresh is running the live table has lost no key
\* that was live when the refresh was called.
C21_NoLostUpdate ==
    /\ (last.op = "settled" /\ last.source = "xml") =>
          /\ archives = MergeRefresh(last.before, last.shows)
          /\ KeySet(last.started) \subseteq KeySet(last.before)
          /\ KeySet(last.started) \cup KeySet(last.before) \cup KeySet(last.shows)
                \subseteq KeySet(archives)
    /\ \A k \in 1..Len(refreshes) :
          refreshes[k].source = "xml" =>
              KeySet(refreshes[k].started) \subseteq KeySet(archives)

\* The second of two refreshes that ran at the same time has stored its
\* table: while it was fetching, the other stored a key that was not live
\* when this one was called and that this one's table lacks; this one adds
\* a key of its own, and the live table has both.
C21_Witness ==
    /\ last.op = "settled"
    /\ last.source = "xml"
    /\ pc = "serving"
    /\ ticks = 2
    /\ refreshes = <<>>
    /\ \E k1 \in KeySet(last.before) \ (KeySet(last.started) \cup KeySet(last.shows)) :
          HasOwn(archives, k1)
    /\ \E k2 \in KeySet(last.shows) \ KeySet(last.before) :
          HasOwn(archives, k2)

====
